---- MODULE Spec2Model ----
(***************************************************************************)
(* Model of nix's Linux ptrace binding (src/sys/ptrace/linux.rs).          *)
(*                                                                         *)
(* The binding is a set of thin functions; each marshals its arguments     *)
(* into one libc::ptrace(request, pid, addr, data) call and converts the   *)
(* integer result and the thread's errno into a Result.  The state of the  *)
(* model is the calling thread's errno, the traced process as the kernel   *)
(* keeps it, and a record of the last operation the caller performed       *)
(* (its arguments, the ptrace invocations it made, what it returned).      *)
(*                                                                         *)
(* Machine words are modelled at a reduced width (WordBits, IntBits), all  *)
(* casts being computed modulo that width; a signal mask is the set of the *)
(* signal numbers whose bits are set.                                      *)
(***************************************************************************)
EXTENDS Integers, Sequences, FiniteSets, TLC

VARIABLES errno, proc, last

vars == <<errno, proc, last>>

(***************************************************************************)
(* Bounds of the model.                                                    *)
(***************************************************************************)
\* width of c_long / *mut c_void / u64 in the model
WordBits == 24
\* width of c_int / i32 / u32 in the model
IntBits == 22
\* a process that exists, and a pid that names no process
TraceePid == 7
NoPid == 9
\* an address mapped in the tracee (and a valid user-area offset), and one
\* that is neither
GoodAddr == 16
BadAddr == 3
\* a sample word other than 0 and the all-ones word
SampleWord == 5
\* the address of the caller's local buffer / local argument
BufAddr == 4096
\* system calls the tracee may invoke (getpid, fork on x86_64)
SysGetpid == 39
SysFork == 57

(***************************************************************************)
(* Words and casts.                                                        *)
(***************************************************************************)
WordMod == 2 ^ WordBits
IntMod == 2 ^ IntBits
ByteMod == 2 ^ 8
AllOnes == WordMod - 1
NULL == 0

\* u64 -> i64, *mut c_void -> c_long: two's complement reinterpretation
ToSigned(w) == IF w >= WordMod \div 2 THEN w - WordMod ELSE w
\* i64 -> u64
ToUnsigned(i) == i % WordMod
\* i32 as *mut c_void: sign extension to the pointer width
IntToPtr(i) == i % WordMod

RECURSIVE BitAnd(_, _)
BitAnd(a, b) ==
    IF a = 0 \/ b = 0 THEN 0
    ELSE (a % 2) * (b % 2) + 2 * BitAnd(a \div 2, b \div 2)

RECURSIVE BitOr(_, _)
BitOr(a, b) ==
    IF a = 0 THEN b
    ELSE IF b = 0 THEN a
    ELSE (IF a % 2 = 1 \/ b % 2 = 1 THEN 1 ELSE 0) + 2 * BitOr(a \div 2, b \div 2)

Words == {0, SampleWord, AllOnes}
Addrs == {GoodAddr, BadAddr}
Pids == {TraceePid, NoPid}


(***************************************************************************)
(* errno and nix's Errno (crate::errno).                                   *)
(***************************************************************************)
EPERM == 1
ESRCH == 3
EIO == 5
EFAULT == 14
EINVAL == 22
ENOSYS == 38

\* Errno::from_i32: the errno numbers the kernel reports here decode to
\* their variants, 0 and every other number to UnknownErrno
Errno_from_i32(e) ==
    CASE e = EPERM -> "EPERM"
      [] e = ESRCH -> "ESRCH"
      [] e = EIO -> "EIO"
      [] e = EFAULT -> "EFAULT"
      [] e = EINVAL -> "EINVAL"
      [] e = ENOSYS -> "ENOSYS"
      [] OTHER -> "UnknownErrno"

\* Result values.  Unit is the value of Ok(()).
Unit == "()"
Ok(v) == [ok |-> TRUE, val |-> v, err |-> "none"]
Err(e) == [ok |-> FALSE, val |-> Unit, err |-> e]

\* Errno::clear(): errno := 0
Errno_clear(e) == 0

\* Errno::result(ret) with the thread's errno being e: -1 is the error
\* sentinel and is turned into Err(Errno::last()), anything else is Ok(ret)
Errno_result(ret, e) == IF ret = -1 THEN Err(Errno_from_i32(e)) ELSE Ok(ret)

(***************************************************************************)
(* Signals (crate::sys::signal::Signal) and their numbers (s as i32).      *)
(***************************************************************************)
Signals == {"SIGINT", "SIGTRAP", "SIGKILL", "SIGUSR1", "SIGSTOP"}
SignalNumber(s) ==
    CASE s = "SIGINT" -> 2
      [] s = "SIGTRAP" -> 5
      [] s = "SIGKILL" -> 9
      [] s = "SIGUSR1" -> 10
      [] s = "SIGSTOP" -> 19
\* largest valid signal number (_NSIG)
NSIG == 64

\* Option<Signal> arguments offered to the signal-bearing operations
NoSignal == "None"
SigArgs == {NoSignal, "SIGINT", "SIGUSR1"}

(***************************************************************************)
(* Options (libc_bitflags! Options: c_int).                                *)
(***************************************************************************)
OptionFlags ==
    {"PTRACE_O_TRACESYSGOOD", "PTRACE_O_TRACEFORK", "PTRACE_O_TRACEVFORK",
     "PTRACE_O_TRACECLONE", "PTRACE_O_TRACEEXEC", "PTRACE_O_TRACEVFORKDONE",
     "PTRACE_O_TRACEEXIT", "PTRACE_O_TRACESECCOMP", "PTRACE_O_EXITKILL"}

\* the kernel's bit value of each flag
OptionBit(f) ==
    CASE f = "PTRACE_O_TRACESYSGOOD" -> 1
      [] f = "PTRACE_O_TRACEFORK" -> 2
      [] f = "PTRACE_O_TRACEVFORK" -> 4
      [] f = "PTRACE_O_TRACECLONE" -> 8
      [] f = "PTRACE_O_TRACEEXEC" -> 16
      [] f = "PTRACE_O_TRACEVFORKDONE" -> 32
      [] f = "PTRACE_O_TRACEEXIT" -> 64
      [] f = "PTRACE_O_TRACESECCOMP" -> 128
      [] f = "PTRACE_O_EXITKILL" -> 1048576

\* Options::bits(): the OR of the bits of the flags in the set
RECURSIVE Options_bits(_)
Options_bits(S) ==
    IF S = {} THEN 0
    ELSE LET f == CHOOSE x \in S : TRUE
         IN  BitOr(OptionBit(f), Options_bits(S \ {f}))

\* every bit the kernel accepts in an options word (PTRACE_O_MASK)
OptionMask == Options_bits(OptionFlags)

\* the flag sets offered to setoptions and seize
OptionArgs ==
    {{}, {"PTRACE_O_TRACESYSGOOD"},
     {"PTRACE_O_TRACESYSGOOD", "PTRACE_O_TRACEFORK"}}


(***************************************************************************)
(* Typed payloads passed by reference.                                     *)
(***************************************************************************)
\* mem::size_of::<T>() of the payload types (x86_64)
SizeOfU64 == 8
SizeOfLong == 8
SizeOfRegs == 216
SizeOfSiginfo == 128
SizeOfSyscallInfo == 88

\* what a read of uninitialized memory yields: no defined value
Poison == "poison"

\* a local buffer: MaybeUninit::uninit(), or a local holding v
Uninit == [init |-> FALSE, val |-> Poison]
Holding(v) == [init |-> TRUE, val |-> v]
\* MaybeUninit::assume_init()
assume_init(buf) == IF buf.init THEN buf.val ELSE Poison

\* u64 signal masks: the set of signal numbers whose bit is set
MaskArgs == {{}, {SignalNumber("SIGUSR1")},
             {SignalNumber("SIGUSR1"), SignalNumber("SIGKILL")}}
\* the signals the kernel never lets a task block
Unblockable == {SignalNumber("SIGKILL"), SignalNumber("SIGSTOP")}

\* user_regs_struct, reduced to a general register and the flag bits
\* (the names of the eflags bits that are set)
RegsOf(a, f) == [rax |-> a, eflags |-> f]
RegArgs == {RegsOf(SampleWord, {"IF"}), RegsOf(AllOnes, {"IF", "ZF"}),
            RegsOf(SampleWord, {"ZF"})}
\* the eflags bits a tracer may change (FLAG_MASK)
WritableFlags == {"CF", "ZF", "SF", "TF", "DF", "OF"}

\* siginfo_t, reduced to si_signo and si_code
SI_USER == 0
SyscallTrapBit == 128
EventShift == 256
PTRACE_EVENT_FORK == 1
SigInfoOf(sig, code) == [signo |-> sig, code |-> code]
SigInfoArgs == {SigInfoOf(SignalNumber("SIGUSR1"), SI_USER)}
NoSigInfo == SigInfoOf(0, 0)

\* ptrace_syscall_info.op values
PTRACE_SYSCALL_INFO_NONE == 0
PTRACE_SYSCALL_INFO_ENTRY == 1
PTRACE_SYSCALL_INFO_EXIT == 2
PTRACE_SYSCALL_INFO_SECCOMP == 3
\* ptrace_message at a system call stop
PTRACE_EVENTMSG_SYSCALL_ENTRY == 1
PTRACE_EVENTMSG_SYSCALL_EXIT == 2

\* number of system call arguments (args: [u64; 6])
NArgs == 6
\* The union u of ptrace_syscall_info as the words it occupies:
\*   entry   = { nr: u[1], args: u[2..7] }
\*   exit    = { sval: u[1] as i64, is_error: low byte of u[2] }
\*   seccomp = { nr: u[1], args: u[2..7], ret_data: low u32 of u[8] }
\* A word the kernel did not write is PoisonWord.
PoisonWord == -1
UnionWords == NArgs + 2
RawInfo(op, arch, ip, sp, u) ==
    [op |-> op, arch |-> arch, instruction_pointer |-> ip,
     stack_pointer |-> sp, u |-> u]
NoUnion == [i \in 1..UnionWords |-> PoisonWord]


(***************************************************************************)
(* The traced process as the kernel keeps it (man ptrace(2)).              *)
(*   traced, seized : attached by the caller / attached with PTRACE_SEIZE  *)
(*   run            : "running", "stopped" (a ptrace-stop) or "dead"       *)
(*   stop           : the kind of the current stop                         *)
(*   resume         : the request that last resumed it                     *)
(*   prev           : "entry" when that request was PTRACE_SYSCALL issued  *)
(*                    at a syscall-enter-stop, else "none"                 *)
(*   phase          : "user", or inside a system call before ("sys") or    *)
(*                    after ("sysdone") the point where events are raised  *)
(*   nr             : the number of the system call it is in               *)
(*   mem, user      : the word at GoodAddr / at user-area offset GoodAddr  *)
(*   regs, blocked, siginfo, options : as set by the kernel and the tracer *)
(***************************************************************************)
InitProc ==
    [traced |-> FALSE, seized |-> FALSE, run |-> "running", stop |-> "none",
     resume |-> "cont", prev |-> "none", phase |-> "user", nr |-> 0,
     mem |-> SampleWord, user |-> SampleWord,
     regs |-> RegsOf(SampleWord, {"IF"}), blocked |-> {},
     siginfo |-> NoSigInfo, options |-> 0]

\* a dead process keeps no state
DeadProc == [InitProc EXCEPT !.run = "dead"]

\* the pid of the child a fork creates, reported through the event message
ChildPid == 8
\* the registers' instruction and stack pointer, the audit architecture
TraceeIp == 4660
TraceeSp == 22136
TraceeArch == 62
\* the arguments of the tracee's system calls
SysArgs == [i \in 1..NArgs |-> IF i = 1 THEN AllOnes ELSE i]

HasOption(p, f) == BitAnd(p.options, OptionBit(f)) # 0

\* ptrace_message of the current stop
EventMsg(p) ==
    CASE p.stop = "entry" -> PTRACE_EVENTMSG_SYSCALL_ENTRY
      [] p.stop = "exit" -> PTRACE_EVENTMSG_SYSCALL_EXIT
      [] p.stop = "event" -> ChildPid
      [] OTHER -> 0

\* si_code of a system call stop: SIGTRAP, or SIGTRAP | 0x80 with
\* PTRACE_O_TRACESYSGOOD
SyscallStopCode(p) ==
    SignalNumber("SIGTRAP")
        + (IF HasOption(p, "PTRACE_O_TRACESYSGOOD") THEN SyscallTrapBit ELSE 0)
ForkEventCode == SignalNumber("SIGTRAP") + PTRACE_EVENT_FORK * EventShift

\* ptrace_get_syscall_info: the payload the kernel builds at the current
\* stop.  The stop is recognised by the si_code of the stop's siginfo.
KernelSyscallInfo(p) ==
    LET sys == p.siginfo.code = SignalNumber("SIGTRAP") + SyscallTrapBit
        hdr(op, u) == RawInfo(op, TraceeArch, TraceeIp, TraceeSp, u)
    IN  IF sys /\ EventMsg(p) = PTRACE_EVENTMSG_SYSCALL_ENTRY
        THEN hdr(PTRACE_SYSCALL_INFO_ENTRY,
                 [i \in 1..UnionWords |->
                     IF i = 1 THEN p.nr
                     ELSE IF i <= NArgs + 1 THEN SysArgs[i - 1]
                     ELSE PoisonWord])
        ELSE IF sys /\ EventMsg(p) = PTRACE_EVENTMSG_SYSCALL_EXIT
        THEN hdr(PTRACE_SYSCALL_INFO_EXIT,
                 [i \in 1..UnionWords |->
                     IF i = 1 THEN ToUnsigned(ChildPid)
                     ELSE IF i = 2 THEN 0
                     ELSE PoisonWord])
        ELSE hdr(PTRACE_SYSCALL_INFO_NONE, NoUnion)


(***************************************************************************)
(* libc::ptrace(request, pid, addr, data): the foreign call.               *)
(*   buf is the caller's memory that data points to when data = BufAddr,   *)
(*   e the thread's errno and p the process at the time of the call;       *)
(*   k resolves what the kernel and libc leave open.                       *)
(* The value is [ret, errno, proc, buf]: the returned word (as c_long),    *)
(* errno, the process and the caller's memory after the call.              *)
(***************************************************************************)
EnvChoices == {0, 1}

KFail(code, buf, e, p) == [ret |-> -1, errno |-> code, proc |-> p, buf |-> buf]
KDone(ret, q, buf, e) == [ret |-> ret, errno |-> e, proc |-> q, buf |-> buf]

ResumeMode(request) ==
    CASE request = "PTRACE_SYSCALL" -> "syscall"
      [] request \in {"PTRACE_SYSEMU", "PTRACE_SYSEMU_SINGLESTEP"} -> "sysemu"
      [] OTHER -> "cont"

\* ptrace_resume: the tracee leaves its stop
Resumed(p, request) ==
    [p EXCEPT !.run = "running", !.stop = "none",
              !.resume = ResumeMode(request), !.siginfo = NoSigInfo,
              !.prev = IF p.stop = "entry" /\ request = "PTRACE_SYSCALL"
                       THEN "entry" ELSE "none",
              !.phase = IF p.stop = "entry" /\ p.resume = "sysemu"
                        THEN "user" ELSE @,
              !.nr = IF p.stop = "entry" /\ p.resume = "sysemu" THEN 0 ELSE @]

Detached(p) ==
    [Resumed(p, "PTRACE_DETACH") EXCEPT
        !.traced = FALSE, !.seized = FALSE, !.options = 0]

ResumeRequests ==
    {"PTRACE_CONT", "PTRACE_SYSCALL", "PTRACE_SINGLESTEP", "PTRACE_SYSEMU",
     "PTRACE_SYSEMU_SINGLESTEP", "PTRACE_DETACH"}

\* requests on a tracee in a ptrace-stop
KernelStopped(request, addr, data, buf, e, p, k) ==
    LET badaddr == KFail(IF k = 0 THEN EIO ELSE EFAULT, buf, e, p)
        noptr == KFail(EFAULT, buf, e, p)
    IN
    CASE request \in {"PTRACE_PEEKDATA", "PTRACE_PEEKTEXT"} ->
            IF addr = GoodAddr
            THEN KDone(ToSigned(p.mem), p, buf, IF k = 0 THEN e ELSE 0)
            ELSE badaddr
      [] request = "PTRACE_PEEKUSER" ->
            IF addr = GoodAddr
            THEN KDone(ToSigned(p.user), p, buf, IF k = 0 THEN e ELSE 0)
            ELSE KFail(EIO, buf, e, p)
      [] request \in {"PTRACE_POKEDATA", "PTRACE_POKETEXT"} ->
            IF addr = GoodAddr
            THEN KDone(0, [p EXCEPT !.mem = data], buf, e)
            ELSE badaddr
      [] request = "PTRACE_POKEUSER" ->
            IF addr = GoodAddr
            THEN KDone(0, [p EXCEPT !.user = data], buf, e)
            ELSE KFail(EIO, buf, e, p)
      [] request \in ResumeRequests ->
            IF data > NSIG THEN KFail(EIO, buf, e, p)
            ELSE IF request = "PTRACE_DETACH" THEN KDone(0, Detached(p), buf, e)
            ELSE KDone(0, Resumed(p, request), buf, e)
      [] request = "PTRACE_SETOPTIONS" ->
            IF BitAnd(data, OptionMask) # data THEN KFail(EINVAL, buf, e, p)
            ELSE KDone(0, [p EXCEPT !.options = data], buf, e)
      [] request = "PTRACE_GETEVENTMSG" ->
            IF data # BufAddr THEN noptr
            ELSE KDone(0, p, Holding(EventMsg(p)), e)
      [] request = "PTRACE_GETSIGINFO" ->
            IF data # BufAddr THEN noptr
            ELSE KDone(0, p, Holding(p.siginfo), e)
      [] request = "PTRACE_SETSIGINFO" ->
            IF data # BufAddr \/ ~buf.init THEN noptr
            ELSE KDone(0, [p EXCEPT !.siginfo = buf.val], buf, e)
      [] request = "PTRACE_GETSIGMASK" ->
            IF addr # SizeOfU64 THEN KFail(EINVAL, buf, e, p)
            ELSE IF data # BufAddr THEN noptr
            ELSE KDone(0, p, Holding(p.blocked), e)
      [] request = "PTRACE_SETSIGMASK" ->
            IF addr # SizeOfU64 THEN KFail(EINVAL, buf, e, p)
            ELSE IF data # BufAddr \/ ~buf.init THEN noptr
            ELSE KDone(0, [p EXCEPT !.blocked = buf.val \ Unblockable], buf, e)
      [] request = "PTRACE_GETREGS" ->
            IF data # BufAddr THEN KFail(EIO, buf, e, p)
            ELSE KDone(0, p, Holding(p.regs), e)
      [] request = "PTRACE_SETREGS" ->
            IF data # BufAddr \/ ~buf.init THEN KFail(EIO, buf, e, p)
            ELSE KDone(0,
                       [p EXCEPT !.regs =
                           RegsOf(buf.val.rax,
                                  (buf.val.eflags \cap WritableFlags)
                                      \cup (p.regs.eflags \ WritableFlags))],
                       buf, e)
      [] request = "PTRACE_GET_SYSCALL_INFO" ->
            IF data # BufAddr THEN noptr
            ELSE KDone(SizeOfSyscallInfo, p,
                       IF addr >= SizeOfSyscallInfo
                       THEN Holding(KernelSyscallInfo(p)) ELSE buf,
                       e)
      [] OTHER -> KFail(EIO, buf, e, p)

libc_ptrace(request, pid, addr, data, buf, e, p, k) ==
    IF request = "PTRACE_TRACEME"
    THEN IF k = 0 THEN KDone(0, p, buf, e) ELSE KFail(EPERM, buf, e, p)
    ELSE IF pid # TraceePid \/ p.run = "dead" THEN KFail(ESRCH, buf, e, p)
    ELSE IF request \in {"PTRACE_ATTACH", "PTRACE_SEIZE"}
    THEN IF p.traced THEN KFail(EPERM, buf, e, p)
         ELSE IF request = "PTRACE_ATTACH"
         THEN KDone(0, [p EXCEPT !.traced = TRUE], buf, e)
         ELSE IF addr # 0 THEN KFail(EIO, buf, e, p)
         ELSE IF BitAnd(data, OptionMask) # data THEN KFail(EINVAL, buf, e, p)
         ELSE KDone(0, [p EXCEPT !.traced = TRUE, !.seized = TRUE,
                                 !.options = data], buf, e)
    ELSE IF ~p.traced THEN KFail(ESRCH, buf, e, p)
    ELSE IF request = "PTRACE_INTERRUPT"
    THEN IF p.seized THEN KDone(0, p, buf, e) ELSE KFail(EIO, buf, e, p)
    ELSE IF request = "PTRACE_KILL"
    THEN IF p.run = "stopped" \/ k = 1 THEN KDone(0, DeadProc, buf, e)
         ELSE KDone(0, p, buf, e)
    ELSE IF p.run # "stopped" THEN KFail(ESRCH, buf, e, p)
    ELSE KernelStopped(request, addr, data, buf, e, p, k)


(***************************************************************************)
(* The binding.  Every function takes, after its own arguments, the        *)
(* thread's errno e, the process p and the environment's choice k, and     *)
(* yields an outcome:                                                      *)
(*   errno, proc : errno and the process afterwards                        *)
(*   calls       : the ptrace invocations made, in order, each with the    *)
(*                 four arguments passed, the memory data pointed to,      *)
(*                 errno just before the call, the returned word and       *)
(*                 errno just after                                        *)
(*   res         : the Result returned                                     *)
(*   buf         : the local buffer after the call                         *)
(*   read        : "none" if the local buffer was not read, else whether   *)
(*                 it was "init" or "uninit" when read                     *)
(*   dec         : whether SyscallInfo::from_raw was invoked               *)
(***************************************************************************)
\* one libc::ptrace call made with errno e, and its log entry
Invoke(request, pid, addr, data, buf, e, p, k) ==
    LET r == libc_ptrace(request, pid, addr, data, buf, e, p, k)
    IN  [ret |-> r.ret, errno |-> r.errno, proc |-> r.proc, buf |-> r.buf,
         log |-> [request |-> request, pid |-> pid, addr |-> addr,
                  data |-> data, buf |-> buf, before |-> e,
                  ret |-> r.ret, after |-> r.errno]]

Outcome(r, res, read, dec) ==
    [errno |-> r.errno, proc |-> r.proc, calls |-> <<r.log>>, res |-> res,
     buf |-> r.buf, read |-> read, dec |-> dec]

\* Result::map(drop)
Drop(res) == IF res.ok THEN Ok(Unit) ELSE res

\* from_raw that takes an unknown discriminant for "no information"
from_raw_default(raw) ==
    LET args == [i \in 1..NArgs |-> raw.u[i + 1]]
        op == CASE raw.op = PTRACE_SYSCALL_INFO_ENTRY ->
                     [tag |-> "Entry", nr |-> ToSigned(raw.u[1]),
                      args |-> args]
                [] raw.op = PTRACE_SYSCALL_INFO_EXIT ->
                     [tag |-> "Exit", ret_val |-> ToSigned(raw.u[1]),
                      is_error |-> raw.u[2] % ByteMod]
                [] raw.op = PTRACE_SYSCALL_INFO_SECCOMP ->
                     [tag |-> "Seccomp", nr |-> ToSigned(raw.u[1]),
                      args |-> args,
                      ret_data |-> raw.u[NArgs + 2] % IntMod]
                [] OTHER -> [tag |-> "None"]
    IN  Ok([op |-> op, arch |-> raw.arch,
            instruction_pointer |-> raw.instruction_pointer,
            stack_pointer |-> raw.stack_pointer])

\* from_raw with the entry and exit discriminants exchanged
from_raw_swapped(raw) ==
    LET args == [i \in 1..NArgs |-> raw.u[i + 1]]
        op == CASE raw.op = PTRACE_SYSCALL_INFO_NONE -> Ok([tag |-> "None"])
                [] raw.op = PTRACE_SYSCALL_INFO_EXIT ->
                     Ok([tag |-> "Entry", nr |-> ToSigned(raw.u[1]),
                         args |-> args])
                [] raw.op = PTRACE_SYSCALL_INFO_ENTRY ->
                     Ok([tag |-> "Exit", ret_val |-> ToSigned(raw.u[1]),
                         is_error |-> raw.u[2] % ByteMod])
                [] raw.op = PTRACE_SYSCALL_INFO_SECCOMP ->
                     Ok([tag |-> "Seccomp", nr |-> ToSigned(raw.u[1]),
                         args |-> args,
                         ret_data |-> raw.u[NArgs + 2] % IntMod])
                [] OTHER -> Err("ENOSYS")
    IN  IF ~op.ok THEN op
        ELSE Ok([op |-> op.val, arch |-> raw.arch,
                 instruction_pointer |-> raw.instruction_pointer,
                 stack_pointer |-> raw.stack_pointer])

\* from_raw that keeps the system call number unsigned
from_raw_nocast(raw) ==
    LET args == [i \in 1..NArgs |-> raw.u[i + 1]]
        op == CASE raw.op = PTRACE_SYSCALL_INFO_NONE -> Ok([tag |-> "None"])
                [] raw.op = PTRACE_SYSCALL_INFO_ENTRY ->
                     Ok([tag |-> "Entry", nr |-> raw.u[1], args |-> args])
                [] raw.op = PTRACE_SYSCALL_INFO_EXIT ->
                     Ok([tag |-> "Exit", ret_val |-> ToSigned(raw.u[1]),
                         is_error |-> raw.u[2] % ByteMod])
                [] raw.op = PTRACE_SYSCALL_INFO_SECCOMP ->
                     Ok([tag |-> "Seccomp", nr |-> raw.u[1], args |-> args,
                         ret_data |-> raw.u[NArgs + 2] % IntMod])
                [] OTHER -> Err("ENOSYS")
    IN  IF ~op.ok THEN op
        ELSE Ok([op |-> op.val, arch |-> raw.arch,
                 instruction_pointer |-> raw.instruction_pointer,
                 stack_pointer |-> raw.stack_pointer])

\* SyscallInfo::from_raw
from_raw(raw) ==
    LET args == [i \in 1..NArgs |-> raw.u[i + 1]]
        op == CASE raw.op = PTRACE_SYSCALL_INFO_NONE -> Ok([tag |-> "None"])
                [] raw.op = PTRACE_SYSCALL_INFO_ENTRY ->
                     Ok([tag |-> "Entry", nr |-> ToSigned(raw.u[1]),
                         args |-> args])
                [] raw.op = PTRACE_SYSCALL_INFO_EXIT ->
                     Ok([tag |-> "Exit", ret_val |-> ToSigned(raw.u[1]),
                         is_error |-> raw.u[2] % ByteMod])
                [] raw.op = PTRACE_SYSCALL_INFO_SECCOMP ->
                     Ok([tag |-> "Seccomp", nr |-> ToSigned(raw.u[1]),
                         args |-> args,
                         ret_data |-> raw.u[NArgs + 2] % IntMod])
                [] OTHER -> Err("ENOSYS")
    IN  IF ~op.ok THEN op
        ELSE Ok([op |-> op.val, arch |-> raw.arch,
                 instruction_pointer |-> raw.instruction_pointer,
                 stack_pointer |-> raw.stack_pointer])

\* ptrace_peek that takes every -1 for an error
ptrace_peek_strict(request, pid, addr, data, e, p, k) ==
    LET r == Invoke(request, pid, addr, data, Uninit, Errno_clear(e), p, k)
    IN  Outcome(r, Errno_result(r.ret, r.errno), "none", FALSE)

\* ptrace_peek without Errno::clear() before the call
ptrace_peek_noclear(request, pid, addr, data, e, p, k) ==
    LET r == Invoke(request, pid, addr, data, Uninit, e, p, k)
        x == Errno_result(r.ret, r.errno)
    IN  Outcome(r, IF x.ok \/ x.err = "UnknownErrno" THEN Ok(r.ret) ELSE x,
                "none", FALSE)

ptrace_peek(request, pid, addr, data, e, p, k) ==
    LET r == Invoke(request, pid, addr, data, Uninit, Errno_clear(e), p, k)
        x == Errno_result(r.ret, r.errno)
    IN  Outcome(r, IF x.ok \/ x.err = "UnknownErrno" THEN Ok(r.ret) ELSE x,
                "none", FALSE)

\* ptrace_get_data that reads the buffer whatever the call returned
ptrace_get_data_unchecked(request, pid, size, e, p, k) ==
    LET r == Invoke(request, pid, size, BufAddr, Uninit, e, p, k)
    IN  Outcome(r, Ok(assume_init(r.buf)),
                IF r.buf.init THEN "init" ELSE "uninit", FALSE)

ptrace_get_data(request, pid, size, e, p, k) ==
    LET r == Invoke(request, pid, size, BufAddr, Uninit, e, p, k)
        x == Errno_result(r.ret, r.errno)
    IN  IF ~x.ok THEN Outcome(r, x, "none", FALSE)
        ELSE Outcome(r, Ok(assume_init(r.buf)),
                     IF r.buf.init THEN "init" ELSE "uninit", FALSE)

\* ptrace_other that never looks at the returned word
ptrace_other_unchecked(request, pid, addr, data, buf, e, p, k) ==
    LET r == Invoke(request, pid, addr, data, buf, e, p, k)
    IN  Outcome(r, Ok(0), "none", FALSE)

\* ptrace_other that takes a nonzero errno, not the returned -1, for failure
ptrace_other_stale(request, pid, addr, data, buf, e, p, k) ==
    LET r == Invoke(request, pid, addr, data, buf, e, p, k)
    IN  Outcome(r, IF r.errno # 0 THEN Err(Errno_from_i32(r.errno)) ELSE Ok(0),
                "none", FALSE)

\* ptrace_other that issues the request a second time when it failed
ptrace_other_retry(request, pid, addr, data, buf, e, p, k) ==
    LET r == Invoke(request, pid, addr, data, buf, e, p, k)
        x == Errno_result(r.ret, r.errno)
        r2 == Invoke(request, pid, addr, data, r.buf, r.errno, r.proc, k)
        x2 == Errno_result(r2.ret, r2.errno)
    IN  IF x.ok THEN Outcome(r, Ok(0), "none", FALSE)
        ELSE [Outcome(r2, IF x2.ok THEN Ok(0) ELSE x2, "none", FALSE)
                 EXCEPT !.calls = <<r.log, r2.log>>]

ptrace_other(request, pid, addr, data, buf, e, p, k) ==
    LET r == Invoke(request, pid, addr, data, buf, e, p, k)
        x == Errno_result(r.ret, r.errno)
    IN  Outcome(r, IF x.ok THEN Ok(0) ELSE x, "none", FALSE)

\* the signal never reaches the data word
SignalData_dropped(sig) == NULL

\* Option<Signal> as the data word: s as i32 as *mut c_void, or null
SignalData(sig) ==
    IF sig = NoSignal THEN NULL ELSE IntToPtr(SignalNumber(sig))

\* an outcome with its result mapped through drop
Dropped(o) == [o EXCEPT !.res = Drop(o.res)]

getregs(pid, e, p, k) == ptrace_get_data("PTRACE_GETREGS", pid, SizeOfRegs, e, p, k)

setregs(pid, regs, e, p, k) ==
    LET r == Invoke("PTRACE_SETREGS", pid, NULL, BufAddr, Holding(regs), e, p, k)
    IN  Outcome(r, Drop(Errno_result(r.ret, r.errno)), "none", FALSE)

\* setoptions with the options word in the address slot
setoptions_swapped(pid, options, e, p, k) ==
    LET r == Invoke("PTRACE_SETOPTIONS", pid,
                    IntToPtr(Options_bits(options)), NULL, Uninit, e, p, k)
    IN  Outcome(r, Drop(Errno_result(r.ret, r.errno)), "none", FALSE)

setoptions(pid, options, e, p, k) ==
    LET r == Invoke("PTRACE_SETOPTIONS", pid, NULL,
                    IntToPtr(Options_bits(options)), Uninit, e, p, k)
    IN  Outcome(r, Drop(Errno_result(r.ret, r.errno)), "none", FALSE)

getevent(pid, e, p, k) ==
    ptrace_get_data("PTRACE_GETEVENTMSG", pid, SizeOfLong, e, p, k)

getsiginfo(pid, e, p, k) ==
    ptrace_get_data("PTRACE_GETSIGINFO", pid, SizeOfSiginfo, e, p, k)

getsigmask(pid, e, p, k) ==
    ptrace_get_data("PTRACE_GETSIGMASK", pid, SizeOfU64, e, p, k)

getsyscallinfo(pid, e, p, k) ==
    LET o == ptrace_other("PTRACE_GET_SYSCALL_INFO", pid, SizeOfSyscallInfo,
                          BufAddr, Uninit, e, p, k)
    IN  IF ~o.res.ok THEN o
        ELSE [o EXCEPT !.res = IF o.buf.init THEN from_raw(o.buf.val)
                                ELSE Ok(Poison),
                       !.read = IF o.buf.init THEN "init" ELSE "uninit",
                       !.dec = TRUE]

setsiginfo(pid, sig, e, p, k) ==
    LET r == Invoke("PTRACE_SETSIGINFO", pid, NULL, BufAddr, Holding(sig),
                    Errno_clear(e), p, k)
        x == Errno_result(r.ret, r.errno)
    IN  Outcome(r, IF x.ok THEN Ok(Unit) ELSE Err(x.err), "none", FALSE)

\* setsigmask that issues the get request
setsigmask_get(pid, mask, e, p, k) ==
    Dropped(ptrace_other("PTRACE_GETSIGMASK", pid, SizeOfU64, BufAddr,
                         Holding(mask), e, p, k))

setsigmask(pid, mask, e, p, k) ==
    Dropped(ptrace_other("PTRACE_SETSIGMASK", pid, SizeOfU64, BufAddr,
                         Holding(mask), e, p, k))

traceme(e, p, k) ==
    Dropped(ptrace_other("PTRACE_TRACEME", 0, NULL, NULL, Uninit, e, p, k))

syscall(pid, sig, e, p, k) ==
    Dropped(ptrace_other("PTRACE_SYSCALL", pid, NULL, SignalData(sig),
                         Uninit, e, p, k))

sysemu(pid, sig, e, p, k) ==
    Dropped(ptrace_other("PTRACE_SYSEMU", pid, NULL, SignalData(sig),
                         Uninit, e, p, k))

\* attach that swallows the kernel's error
attach_lenient(pid, e, p, k) ==
    [ptrace_other("PTRACE_ATTACH", pid, NULL, NULL, Uninit, e, p, k)
        EXCEPT !.res = Ok(Unit)]

attach(pid, e, p, k) ==
    Dropped(ptrace_other("PTRACE_ATTACH", pid, NULL, NULL, Uninit, e, p, k))

seize(pid, options, e, p, k) ==
    Dropped(ptrace_other("PTRACE_SEIZE", pid, NULL,
                         IntToPtr(Options_bits(options)), Uninit, e, p, k))

detach(pid, sig, e, p, k) ==
    Dropped(ptrace_other("PTRACE_DETACH", pid, NULL, SignalData(sig),
                         Uninit, e, p, k))

cont(pid, sig, e, p, k) ==
    Dropped(ptrace_other("PTRACE_CONT", pid, NULL, SignalData(sig),
                         Uninit, e, p, k))

interrupt(pid, e, p, k) ==
    Dropped(ptrace_other("PTRACE_INTERRUPT", pid, NULL, NULL, Uninit, e, p, k))

kill(pid, e, p, k) ==
    Dropped(ptrace_other("PTRACE_KILL", pid, NULL, NULL, Uninit, e, p, k))

step(pid, sig, e, p, k) ==
    Dropped(ptrace_other("PTRACE_SINGLESTEP", pid, NULL, SignalData(sig),
                         Uninit, e, p, k))

sysemu_step(pid, sig, e, p, k) ==
    Dropped(ptrace_other("PTRACE_SYSEMU_SINGLESTEP", pid, NULL,
                         SignalData(sig), Uninit, e, p, k))

read(pid, addr, e, p, k) ==
    ptrace_peek("PTRACE_PEEKDATA", pid, addr, NULL, e, p, k)

write(pid, addr, data, e, p, k) ==
    Dropped(ptrace_other("PTRACE_POKEDATA", pid, addr, data, Uninit, e, p, k))

read_user(pid, offset, e, p, k) ==
    ptrace_peek("PTRACE_PEEKUSER", pid, offset, NULL, e, p, k)

write_user(pid, offset, data, e, p, k) ==
    Dropped(ptrace_other("PTRACE_POKEUSER", pid, offset, data, Uninit, e, p, k))


(***************************************************************************)
(* The state machine: the caller performs one operation at a time; the     *)
(* tracee runs in between.                                                 *)
(***************************************************************************)
NoOp ==
    [op |-> "none", pid |-> 0, addr |-> NULL, arg |-> Unit, calls |-> <<>>,
     res |-> Ok(Unit), read |-> "none", dec |-> FALSE]

Init ==
    /\ errno = 0
    /\ proc = InitProc
    /\ last = NoOp

\* the caller's operation op(pid, addr, arg) has had outcome o
Apply(op, pid, addr, arg, o) ==
    /\ errno' = o.errno
    /\ proc' = o.proc
    /\ last' = [op |-> op, pid |-> pid, addr |-> addr, arg |-> arg,
                calls |-> o.calls, res |-> o.res, read |-> o.read,
                dec |-> o.dec]

Read ==
    \E pid \in Pids, a \in Addrs, k \in EnvChoices :
        Apply("read", pid, a, Unit, read(pid, a, errno, proc, k))
ReadUser ==
    \E pid \in Pids, a \in Addrs, k \in EnvChoices :
        Apply("read_user", pid, a, Unit, read_user(pid, a, errno, proc, k))
Write(W) ==
    \E pid \in Pids, a \in Addrs, w \in W, k \in EnvChoices :
        Apply("write", pid, a, w, write(pid, a, w, errno, proc, k))
WriteUser(W) ==
    \E pid \in Pids, a \in Addrs, w \in W, k \in EnvChoices :
        Apply("write_user", pid, a, w, write_user(pid, a, w, errno, proc, k))
Cont ==
    \E pid \in Pids, sig \in SigArgs, k \in EnvChoices :
        Apply("cont", pid, NULL, sig, cont(pid, sig, errno, proc, k))
Step ==
    \E pid \in Pids, sig \in SigArgs, k \in EnvChoices :
        Apply("step", pid, NULL, sig, step(pid, sig, errno, proc, k))
Syscall ==
    \E pid \in Pids, sig \in SigArgs, k \in EnvChoices :
        Apply("syscall", pid, NULL, sig, syscall(pid, sig, errno, proc, k))
Sysemu ==
    \E pid \in Pids, sig \in SigArgs, k \in EnvChoices :
        Apply("sysemu", pid, NULL, sig, sysemu(pid, sig, errno, proc, k))
SysemuStep ==
    \E pid \in Pids, sig \in SigArgs, k \in EnvChoices :
        Apply("sysemu_step", pid, NULL, sig,
              sysemu_step(pid, sig, errno, proc, k))
Detach ==
    \E pid \in Pids, sig \in SigArgs, k \in EnvChoices :
        Apply("detach", pid, NULL, sig, detach(pid, sig, errno, proc, k))
Attach ==
    \E pid \in Pids, k \in EnvChoices :
        Apply("attach", pid, NULL, Unit, attach(pid, errno, proc, k))
Seize(O) ==
    \E pid \in Pids, o \in O, k \in EnvChoices :
        Apply("seize", pid, NULL, o, seize(pid, o, errno, proc, k))
Kill ==
    \E pid \in Pids, k \in EnvChoices :
        Apply("kill", pid, NULL, Unit, kill(pid, errno, proc, k))
Interrupt ==
    \E pid \in Pids, k \in EnvChoices :
        Apply("interrupt", pid, NULL, Unit, interrupt(pid, errno, proc, k))
Traceme ==
    \E k \in EnvChoices :
        Apply("traceme", 0, NULL, Unit, traceme(errno, proc, k))
Setoptions(O) ==
    \E pid \in Pids, o \in O, k \in EnvChoices :
        Apply("setoptions", pid, NULL, o, setoptions(pid, o, errno, proc, k))
Getevent ==
    \E pid \in Pids, k \in EnvChoices :
        Apply("getevent", pid, NULL, Unit, getevent(pid, errno, proc, k))
Getsiginfo ==
    \E pid \in Pids, k \in EnvChoices :
        Apply("getsiginfo", pid, NULL, Unit, getsiginfo(pid, errno, proc, k))
Setsiginfo(S) ==
    \E pid \in Pids, si \in S, k \in EnvChoices :
        Apply("setsiginfo", pid, NULL, si, setsiginfo(pid, si, errno, proc, k))
Getsigmask ==
    \E pid \in Pids, k \in EnvChoices :
        Apply("getsigmask", pid, NULL, Unit, getsigmask(pid, errno, proc, k))
Setsigmask(M) ==
    \E pid \in Pids, m \in M, k \in EnvChoices :
        Apply("setsigmask", pid, NULL, m, setsigmask(pid, m, errno, proc, k))
Getregs ==
    \E pid \in Pids, k \in EnvChoices :
        Apply("getregs", pid, NULL, Unit, getregs(pid, errno, proc, k))
Setregs(R) ==
    \E pid \in Pids, r \in R, k \in EnvChoices :
        Apply("setregs", pid, NULL, r, setregs(pid, r, errno, proc, k))
Getsyscallinfo ==
    \E pid \in Pids, k \in EnvChoices :
        Apply("getsyscallinfo", pid, NULL, Unit,
              getsyscallinfo(pid, errno, proc, k))

(***************************************************************************)
(* The tracee's own steps.                                                 *)
(***************************************************************************)
Syscalls == {SysGetpid, SysFork}

StoppedAt(p, kind, si) ==
    [p EXCEPT !.run = "stopped", !.stop = kind, !.siginfo = si]

\* a signal reaches the running tracee: signal-delivery-stop
TraceeStops ==
    /\ proc.traced /\ proc.run = "running"
    /\ proc' = StoppedAt(proc, "signal",
                         SigInfoOf(SignalNumber("SIGSTOP"), SI_USER))
    /\ UNCHANGED <<errno, last>>

\* the process invokes system call n: syscall-enter-stop when it was
\* resumed by PTRACE_SYSCALL or PTRACE_SYSEMU
TraceeEntersSyscall ==
    \E n \in Syscalls :
        /\ proc.run = "running" /\ proc.phase = "user"
        /\ LET q == [proc EXCEPT !.phase = "sys", !.nr = n]
           IN  proc' = IF proc.traced /\ proc.resume \in {"syscall", "sysemu"}
                       THEN StoppedAt(q, "entry",
                                SigInfoOf(SignalNumber("SIGTRAP"),
                                          SyscallStopCode(q)))
                       ELSE q
        /\ UNCHANGED <<errno, last>>

\* fork creates the child: PTRACE_EVENT_FORK stop with PTRACE_O_TRACEFORK
TraceeForks ==
    /\ proc.run = "running" /\ proc.phase = "sys" /\ proc.nr = SysFork
    /\ LET q == [proc EXCEPT !.phase = "sysdone"]
       IN  proc' = IF proc.traced /\ HasOption(proc, "PTRACE_O_TRACEFORK")
                   THEN StoppedAt(q, "event",
                            SigInfoOf(SignalNumber("SIGTRAP"), ForkEventCode))
                   ELSE q
    /\ UNCHANGED <<errno, last>>

\* the system call returns: syscall-exit-stop when the tracee was resumed
\* by PTRACE_SYSCALL
TraceeLeavesSyscall ==
    /\ proc.run = "running"
    /\ \/ proc.phase = "sys" /\ proc.nr # SysFork
       \/ proc.phase = "sysdone"
    /\ LET q == [proc EXCEPT !.phase = "user", !.nr = 0]
       IN  proc' = IF proc.traced /\ proc.resume = "syscall"
                   THEN StoppedAt(q, "exit",
                            SigInfoOf(SignalNumber("SIGTRAP"),
                                      SyscallStopCode(q)))
                   ELSE q
    /\ UNCHANGED <<errno, last>>

(***************************************************************************)
(* Decoding on its own: from_raw applied to every sample payload.          *)
(***************************************************************************)
RawOps == {PTRACE_SYSCALL_INFO_NONE, PTRACE_SYSCALL_INFO_ENTRY,
           PTRACE_SYSCALL_INFO_EXIT, PTRACE_SYSCALL_INFO_SECCOMP,
           PTRACE_SYSCALL_INFO_SECCOMP + 1, ByteMod - 1}
RawPayloads ==
    { RawInfo(op, arch, ip, TraceeSp,
              [i \in 1..UnionWords |->
                  IF i = 1 THEN w1 ELSE IF i = 2 THEN w2
                  ELSE IF i = UnionWords THEN w8 ELSE SysArgs[i - 1]]) :
        op \in RawOps, arch \in {TraceeArch}, ip \in {TraceeIp, AllOnes},
        w1 \in {SysGetpid, AllOnes}, w2 \in {0, 1, ByteMod + 1},
        w8 \in {SampleWord, AllOnes} }

FromRaw ==
    \E raw \in RawPayloads :
        /\ last' = [NoOp EXCEPT !.op = "from_raw", !.arg = raw,
                                !.res = from_raw(raw), !.dec = TRUE]
        /\ UNCHANGED <<errno, proc>>

NextDecode == FromRaw

SpecDecode == Init /\ [][NextDecode]_vars

(***************************************************************************)
(* Specifications.  Spec offers every operation of the binding, with the   *)
(* payloads of the writing operations fixed to the values the tracee       *)
(* already holds; SpecMem, SpecRegs and SpecSys offer the operations on    *)
(* the tracee's memory, on its registers and signal mask, and around its   *)
(* system call stops, with their payloads drawn from the sample sets.      *)
(***************************************************************************)
Next ==
    \/ Read \/ ReadUser
    \/ Write({InitProc.mem}) \/ WriteUser({InitProc.user})
    \/ Cont \/ Step \/ Syscall \/ Sysemu \/ SysemuStep \/ Detach
    \/ Attach \/ Seize({{}}) \/ Kill \/ Interrupt \/ Traceme
    \/ Setoptions({{}}) \/ Getevent \/ Getsiginfo \/ Setsiginfo(SigInfoArgs)
    \/ Getsigmask \/ Setsigmask({InitProc.blocked})
    \/ Getregs \/ Setregs({InitProc.regs}) \/ Getsyscallinfo
    \/ TraceeStops \/ TraceeEntersSyscall \/ TraceeForks
    \/ TraceeLeavesSyscall

Spec == Init /\ [][Next]_vars

NextMem ==
    \/ Attach \/ TraceeStops \/ Cont \/ Detach
    \/ Read \/ ReadUser \/ Write(Words) \/ WriteUser(Words)

SpecMem == Init /\ [][NextMem]_vars

NextRegs ==
    \/ Attach \/ TraceeStops \/ Cont
    \/ Getsigmask \/ Setsigmask(MaskArgs) \/ Getregs \/ Setregs(RegArgs)

SpecRegs == Init /\ [][NextRegs]_vars

NextSys ==
    \/ Attach \/ TraceeStops \/ Setoptions(OptionArgs)
    \/ Cont \/ Syscall \/ Setsiginfo(SigInfoArgs) \/ Getsyscallinfo
    \/ TraceeEntersSyscall \/ TraceeForks \/ TraceeLeavesSyscall

SpecSys == Init /\ [][NextSys]_vars


(***************************************************************************)
(* Claims.                                                                 *)
(***************************************************************************)
PeekOps == {"read", "read_user"}
ControlOps ==
    {"write", "write_user", "cont", "step", "syscall", "attach", "detach",
     "kill", "interrupt", "seize", "traceme", "setoptions", "setsiginfo",
     "setsigmask", "setregs"}
SignalOps == {"cont", "step", "detach", "syscall", "sysemu", "sysemu_step"}
GetterOps ==
    {"getregs", "getevent", "getsiginfo", "getsigmask", "getsyscallinfo"}

\* C1: read and read_user clear errno before the ptrace call; a returned
\* word other than -1 is Ok(word); -1 with errno still decoding to
\* UnknownErrno is Ok(-1); -1 with a known errno E is Err(E).
C1_PeekResult ==
    last.op \in PeekOps =>
        /\ Len(last.calls) = 1
        /\ LET c == last.calls[1]
               E == Errno_from_i32(c.after)
           IN  /\ c.before = 0
               /\ c.ret # -1 => last.res = Ok(c.ret)
               /\ (c.ret = -1 /\ E = "UnknownErrno") => last.res = Ok(-1)
               /\ (c.ret = -1 /\ E # "UnknownErrno") => last.res = Err(E)

\* a read of a stored all-ones word has returned Ok(-1)
C1_Witness ==
    /\ last.op = "read" /\ proc.mem = AllOnes
    /\ last.calls[1].ret = -1 /\ last.res = Ok(-1)

\* C2: a poke-style or control-style operation returns Ok(()) exactly when
\* the kernel's return value is not -1, and Err(E), E being errno as the
\* kernel set it, exactly when it is -1.
C2_ControlResult ==
    last.op \in ControlOps =>
        /\ Len(last.calls) >= 1
        /\ LET c == last.calls[1]
           IN  /\ (last.res = Ok(Unit)) <=> (c.ret # -1)
               /\ (last.res = Err(Errno_from_i32(c.after))) <=> (c.ret = -1)

\* a control operation has failed with the kernel's errno
C2_Witness ==
    /\ last.op = "cont" /\ last.calls[1].ret = -1
    /\ last.calls[1].after = ESRCH /\ last.res = Err("ESRCH")

\* the request code of each public operation
RequestOf(op) ==
    CASE op = "read" -> "PTRACE_PEEKDATA"
      [] op = "read_user" -> "PTRACE_PEEKUSER"
      [] op = "write" -> "PTRACE_POKEDATA"
      [] op = "write_user" -> "PTRACE_POKEUSER"
      [] op = "cont" -> "PTRACE_CONT"
      [] op = "step" -> "PTRACE_SINGLESTEP"
      [] op = "syscall" -> "PTRACE_SYSCALL"
      [] op = "sysemu" -> "PTRACE_SYSEMU"
      [] op = "sysemu_step" -> "PTRACE_SYSEMU_SINGLESTEP"
      [] op = "attach" -> "PTRACE_ATTACH"
      [] op = "seize" -> "PTRACE_SEIZE"
      [] op = "detach" -> "PTRACE_DETACH"
      [] op = "kill" -> "PTRACE_KILL"
      [] op = "interrupt" -> "PTRACE_INTERRUPT"
      [] op = "traceme" -> "PTRACE_TRACEME"
      [] op = "setoptions" -> "PTRACE_SETOPTIONS"
      [] op = "getevent" -> "PTRACE_GETEVENTMSG"
      [] op = "getsiginfo" -> "PTRACE_GETSIGINFO"
      [] op = "setsiginfo" -> "PTRACE_SETSIGINFO"
      [] op = "getsigmask" -> "PTRACE_GETSIGMASK"
      [] op = "setsigmask" -> "PTRACE_SETSIGMASK"
      [] op = "getregs" -> "PTRACE_GETREGS"
      [] op = "setregs" -> "PTRACE_SETREGS"
      [] op = "getsyscallinfo" -> "PTRACE_GET_SYSCALL_INFO"
      [] OTHER -> "no request"

\* C3: every public operation makes exactly one ptrace invocation, whether
\* it succeeds or fails, with the request code of the operation and the
\* caller's pid (0 for traceme).
C3_OneInvocation ==
    last.op \notin {"none", "from_raw"} =>
        /\ Len(last.calls) = 1
        /\ last.calls[1].request = RequestOf(last.op)
        /\ last.calls[1].pid = IF last.op = "traceme" THEN 0 ELSE last.pid

\* a failed operation has made its single invocation
C3_Witness ==
    /\ last.op = "attach" /\ Len(last.calls) = 1
    /\ last.calls[1].ret = -1 /\ ~last.res.ok

\* C4: a signal-bearing operation passes a null address, and as data the
\* null word when no signal is given, else the signal's number, which is
\* nonzero and differs from every other signal's.
C4_SignalData ==
    last.op \in SignalOps =>
        LET c == last.calls[1]
        IN  /\ c.addr = NULL
            /\ last.arg = NoSignal => c.data = NULL
            /\ last.arg # NoSignal =>
                 /\ c.data = SignalNumber(last.arg)
                 /\ c.data # NULL
                 /\ \A s \in Signals \ {last.arg} : SignalNumber(s) # c.data

\* detach has delivered SIGUSR1
C4_Witness ==
    /\ last.op = "detach" /\ last.arg = "SIGUSR1" /\ last.res.ok
    /\ last.calls[1].data = SignalNumber("SIGUSR1")


KnownOps == {PTRACE_SYSCALL_INFO_NONE, PTRACE_SYSCALL_INFO_ENTRY,
             PTRACE_SYSCALL_INFO_EXIT, PTRACE_SYSCALL_INFO_SECCOMP}

\* C5: decoding a payload whose discriminant is none of NONE, ENTRY, EXIT,
\* SECCOMP fails with ENOSYS, whatever its other fields hold.
C5_UnknownOpFails ==
    (last.op = "from_raw" /\ last.arg.op \notin KnownOps) =>
        last.res = Err("ENOSYS")

\* a payload with discriminant 255 has been refused
C5_Witness ==
    /\ last.op = "from_raw" /\ last.arg.op = ByteMod - 1
    /\ last.res = Err("ENOSYS")

\* the signed 64-bit value with the bits of the unsigned word w
IsSignedViewOf(v, w) ==
    /\ -(WordMod \div 2) <= v /\ v < WordMod \div 2
    /\ (v - w) % WordMod = 0

\* C6: a payload with a known discriminant decodes to Ok with the variant
\* the discriminant selects, its fields being the raw union's (nr being the
\* unsigned word read as a signed one), and arch, instruction_pointer and
\* stack_pointer copied unchanged.
C6_KnownOpDecodes ==
    (last.op = "from_raw" /\ last.arg.op \in KnownOps) =>
        LET raw == last.arg
            v == last.res.val
            rawargs == [i \in 1..NArgs |-> raw.u[i + 1]]
        IN  /\ last.res.ok
            /\ v.arch = raw.arch
            /\ v.instruction_pointer = raw.instruction_pointer
            /\ v.stack_pointer = raw.stack_pointer
            /\ raw.op = PTRACE_SYSCALL_INFO_NONE => v.op = [tag |-> "None"]
            /\ raw.op = PTRACE_SYSCALL_INFO_ENTRY =>
                 /\ v.op.tag = "Entry" /\ DOMAIN v.op = {"tag", "nr", "args"}
                 /\ IsSignedViewOf(v.op.nr, raw.u[1])
                 /\ v.op.args = rawargs
            /\ raw.op = PTRACE_SYSCALL_INFO_EXIT =>
                 /\ v.op.tag = "Exit"
                 /\ DOMAIN v.op = {"tag", "ret_val", "is_error"}
                 /\ IsSignedViewOf(v.op.ret_val, raw.u[1])
                 /\ v.op.is_error = raw.u[2] % ByteMod
            /\ raw.op = PTRACE_SYSCALL_INFO_SECCOMP =>
                 /\ v.op.tag = "Seccomp"
                 /\ DOMAIN v.op = {"tag", "nr", "args", "ret_data"}
                 /\ IsSignedViewOf(v.op.nr, raw.u[1])
                 /\ v.op.args = rawargs
                 /\ v.op.ret_data = raw.u[UnionWords] % IntMod

\* an entry payload whose nr has every bit set has decoded to nr = -1
C6_Witness ==
    /\ last.op = "from_raw" /\ last.arg.op = PTRACE_SYSCALL_INFO_ENTRY
    /\ last.arg.u[1] = AllOnes
    /\ last.res.ok /\ last.res.val.op.tag = "Entry" /\ last.res.val.op.nr = -1

\* the words of the union that from_raw reads for a discriminant
WordsRead(op) ==
    CASE op = PTRACE_SYSCALL_INFO_ENTRY -> 1..(NArgs + 1)
      [] op = PTRACE_SYSCALL_INFO_EXIT -> {1, 2}
      [] op = PTRACE_SYSCALL_INFO_SECCOMP -> 1..UnionWords
      [] OTHER -> {}

\* C7: an out-parameter operation passes an uninitialized buffer to the
\* kernel and reads it (and, for getsyscallinfo, decodes it) only after the
\* call reported success; on failure it returns the kernel's error with the
\* buffer unread, so nothing read from uninitialized memory is returned.
C7_BufferReadAfterSuccess ==
    last.op \in GetterOps =>
        LET c == last.calls[1]
        IN  /\ c.data = BufAddr /\ ~c.buf.init
            /\ last.read # "uninit"
            /\ last.read = "init" => c.ret # -1
            /\ last.dec => (c.ret # -1 /\ last.read = "init")
            /\ c.ret = -1 =>
                 /\ last.read = "none" /\ ~last.dec
                 /\ last.res = Err(Errno_from_i32(c.after))
            /\ LET raw == KernelSyscallInfo(proc)
               IN  \A i \in WordsRead(raw.op) : raw.u[i] # PoisonWord

\* getsyscallinfo has failed in the kernel and left its buffer unread
C7_Witness ==
    /\ last.op = "getsyscallinfo" /\ last.calls[1].ret = -1
    /\ last.read = "none" /\ ~last.dec /\ ~last.res.ok


\* C8: a successful write(pid, a, w) followed at once by read(pid, a)
\* returns Ok(w), for every word w, the all-ones word included.
C8_WriteThenRead ==
    [][ (/\ last.op = "write" /\ last.res.ok
         /\ last'.op = "read" /\ last'.pid = last.pid
         /\ last'.addr = last.addr)
        => last'.res = Ok(ToSigned(last.arg)) ]_vars

\* the word 0, which only a write can have stored, has been read back
C8_Witness ==
    /\ last.op = "read" /\ last.pid = TraceePid /\ last.addr = GoodAddr
    /\ proc.mem = 0 /\ last.res = Ok(0)

\* C9 as stated: a successful setsigmask(pid, m) followed at once by
\* getsigmask(pid) returns Ok(m) for every mask m, and a successful
\* setregs(pid, r) followed at once by getregs(pid) returns Ok(r) for every
\* register set r.
C9_RoundTripIdentity ==
    [][ /\ (/\ last.op = "setsigmask" /\ last.res.ok
            /\ last'.op = "getsigmask" /\ last'.pid = last.pid)
           => (last'.res.ok /\ last'.res.val = last.arg)
        /\ (/\ last.op = "setregs" /\ last.res.ok
            /\ last'.op = "getregs" /\ last'.pid = last.pid)
           => (last'.res.ok /\ last'.res.val = last.arg) ]_vars

\* C9 amended: getsigmask returns m without SIGKILL and SIGSTOP, which the
\* kernel never blocks; getregs returns r in every general register and in
\* every eflags bit a tracer may change, the other eflags bits being the
\* tracee's own.
C9_RoundTripSanitized ==
    [][ /\ (/\ last.op = "setsigmask" /\ last.res.ok
            /\ last'.op = "getsigmask" /\ last'.pid = last.pid)
           => (last'.res.ok /\ last'.res.val = last.arg \ Unblockable)
        /\ (/\ last.op = "setregs" /\ last.res.ok
            /\ last'.op = "getregs" /\ last'.pid = last.pid)
           => (/\ last'.res.ok
               /\ last'.res.val.rax = last.arg.rax
               /\ last'.res.val.eflags \cap WritableFlags
                      = last.arg.eflags \cap WritableFlags
               /\ last'.res.val.eflags \ WritableFlags
                      = proc.regs.eflags \ WritableFlags) ]_vars

\* a mask set through setsigmask has been read back
C9_Witness ==
    /\ last.op = "getsigmask" /\ last.res.ok
    /\ last.res.val = {SignalNumber("SIGUSR1")}
    /\ proc.blocked = {SignalNumber("SIGUSR1")}

\* a step in which getsyscallinfo is called on the stopped tracee
SyscallInfoAtStop ==
    /\ proc.run = "stopped" /\ proc.traced
    /\ last'.op = "getsyscallinfo" /\ last'.pid = TraceePid
    /\ proc' = proc

ReportedAsSyscallStop ==
    proc.siginfo.code = SignalNumber("SIGTRAP") + SyscallTrapBit

C11_AttachNoProcess ==
    /\ (last.op = "attach" /\ last.pid = NoPid) =>
          /\ Len(last.calls) = 1
          /\ last.calls[1].request = "PTRACE_ATTACH"
          /\ last.calls[1].pid = NoPid
          /\ last.calls[1].ret = -1 /\ last.calls[1].after = ESRCH
          /\ last.res = Err("ESRCH")
    /\ \A k \in EnvChoices :
          LET o == attach(NoPid, errno, proc, k)
          IN  /\ o.res = Err("ESRCH")
              /\ o.errno = ESRCH
              /\ o.proc = proc

\* attach(NoPid) has failed while the existing process is a stopped tracee
C11_Witness ==
    /\ last.op = "attach" /\ last.pid = NoPid /\ last.res = Err("ESRCH")
    /\ proc.traced /\ proc.run = "stopped"


\* every operation called once with sample arguments, from errno e
CallsFrom(pid, e, p, k) ==
    << read(pid, GoodAddr, e, p, k), read(pid, BadAddr, e, p, k),
       read_user(pid, GoodAddr, e, p, k),
       write(pid, GoodAddr, AllOnes, e, p, k),
       write_user(pid, GoodAddr, SampleWord, e, p, k),
       cont(pid, NoSignal, e, p, k), cont(pid, "SIGUSR1", e, p, k),
       step(pid, NoSignal, e, p, k), syscall(pid, NoSignal, e, p, k),
       sysemu(pid, NoSignal, e, p, k), sysemu_step(pid, NoSignal, e, p, k),
       detach(pid, NoSignal, e, p, k), attach(pid, e, p, k),
       seize(pid, {"PTRACE_O_TRACESYSGOOD"}, e, p, k), kill(pid, e, p, k),
       interrupt(pid, e, p, k), traceme(e, p, k),
       setoptions(pid, {"PTRACE_O_TRACESYSGOOD"}, e, p, k),
       getevent(pid, e, p, k), getsiginfo(pid, e, p, k),
       setsiginfo(pid, SigInfoOf(SignalNumber("SIGUSR1"), SI_USER), e, p, k),
       getsigmask(pid, e, p, k),
       setsigmask(pid, {SignalNumber("SIGUSR1")}, e, p, k),
       getregs(pid, e, p, k), setregs(pid, RegsOf(AllOnes, {"ZF"}), e, p, k),
       getsyscallinfo(pid, e, p, k) >>

\* two outcomes of one call: the kernel returned the same word, the
\* caller got the same Result and the tracee is left in the same state
SameResponse(a, b) ==
    /\ Len(a.calls) = Len(b.calls)
    /\ \A i \in 1..Len(a.calls) : a.calls[i].ret = b.calls[i].ret
SameResult(a, b) ==
    /\ a.res.ok = b.res.ok
    /\ a.res.err = b.res.err
    /\ a.res.ok => a.res.val = b.res.val
    /\ a.proc = b.proc

\* C12: the result of a call does not depend on the errno earlier calls
\* left behind: from the errno the history produced and from a clean errno,
\* the same operation with the same arguments on the same tracee gets the
\* same kernel response and returns the same Result.  In particular a stale
\* nonzero errno turns neither a read of the word -1 nor a successful
\* control-style call into an error.
C12_HistoryIndependent ==
    /\ \A pid \in Pids, k \in EnvChoices :
          LET a == CallsFrom(pid, errno, proc, k)
              b == CallsFrom(pid, 0, proc, k)
          IN  \A i \in 1..Len(a) :
                  SameResponse(a[i], b[i]) /\ SameResult(a[i], b[i])
    /\ (/\ last.op \in PeekOps \cup ControlOps
        /\ last.calls[1].ret # -1
        /\ last.calls[1].after # 0) => last.res.ok
    /\ (/\ last.op \in PeekOps /\ last.calls[1].ret = -1
        /\ last.calls[1].after = 0) => last.res = Ok(-1)

\* a control-style call made with a stale nonzero errno has succeeded
C12_Witness ==
    /\ last.op = "cont" /\ last.res.ok
    /\ last.calls[1].before = ESRCH /\ last.calls[1].after = ESRCH


(***************************************************************************)
(* Options on their own: setoptions and seize with many flag sets.         *)
(***************************************************************************)
\* the flag sets offered: none, each flag alone, two pairs, all
OptionSets ==
    {{}} \cup {{f} : f \in OptionFlags}
         \cup {{"PTRACE_O_TRACESYSGOOD", "PTRACE_O_TRACEFORK"},
               {"PTRACE_O_TRACESECCOMP", "PTRACE_O_EXITKILL"}, OptionFlags}

NextOpts ==
    \/ Attach \/ TraceeStops \/ Detach
    \/ Seize(OptionSets) \/ Setoptions(OptionSets)

SpecOpts == Init /\ [][NextOpts]_vars

\* the word holds the bit of exactly the flags in S and no other bit
HoldsExactly(word, S) ==
    /\ \A f \in OptionFlags :
          BitAnd(word, OptionBit(f)) = IF f \in S THEN OptionBit(f) ELSE 0
    /\ BitAnd(word, OptionMask) = word
    /\ S = {} => word = 0

\* the data word setoptions and seize pass for the flag set S
WordPassed(S) ==
    << setoptions(TraceePid, S, errno, proc, 0).calls[1].data,
       seize(TraceePid, S, errno, proc, 0).calls[1].data >>

\* C13: setoptions and seize pass a data word holding the OR of the bits of
\* exactly the flags in the set (0 for the empty set, no bit outside the
\* defined flags) and a null address; the word passed for a combination
\* of two flag sets is the OR of their words whatever the order, and
\* combining a set with itself passes the same word.
C13_OptionsWord ==
    last.op \in {"setoptions", "seize"} =>
        /\ Len(last.calls) = 1
        /\ last.calls[1].addr = NULL
        /\ HoldsExactly(last.calls[1].data, last.arg)
        /\ \A B \in OptionSets :
              LET a == WordPassed(last.arg)
                  b == WordPassed(B)
                  ab == WordPassed(last.arg \cup B)
                  ba == WordPassed(B \cup last.arg)
              IN  \A i \in 1..2 :
                      /\ a[i] = last.calls[1].data
                      /\ HoldsExactly(ab[i], last.arg \cup B)
                      /\ ab[i] = BitOr(a[i], b[i])
                      /\ ab[i] = ba[i]
                      /\ BitOr(a[i], b[i]) = BitOr(b[i], a[i])
                      /\ WordPassed(last.arg \cup last.arg)[i] = a[i]
                      /\ BitOr(a[i], a[i]) = a[i]

\* seize has passed the word of two flags, bit 7 and bit 20
C13_Witness ==
    /\ last.op = "seize" /\ last.res.ok
    /\ last.arg = {"PTRACE_O_TRACESECCOMP", "PTRACE_O_EXITKILL"}
    /\ last.calls[1].data = 1048704
    /\ proc.seized

====
